---------------------------- MODULE Spec2Model ----------------------------
(***************************************************************************)
(* Crypto-Historical-Data-Retrieval: the feature-derivation engine         *)
(* (metrics_calculations.py, utils.py), the feature/target selection of    *)
(* ml_model.train_model, the workbook writer utils.add_to_excel and the    *)
(* pagination loop of data_retrieval.fetch_crypto_data.                    *)
(*                                                                         *)
(* A DataFrame is a record [index, columns, col]: index is the sequence of *)
(* row labels, columns the ordered sequence of column names and col maps   *)
(* each column name to its sequence of cells.  Row positions are 0-based   *)
(* as in the source (iloc).  A column name is a tuple: <<"Date">>, or the  *)
(* pieces of the f-string that builds it, <<"High_Last_", 3, "_Days">>.    *)
(* A float cell that can be NaN is a tuple: <<>> is NaN, <<v>> is v.       *)
(***************************************************************************)
EXTENDS Integers, Sequences, FiniteSets, TLC

VARIABLES
    raw,          \* the table as the caller built it (snapshot taken before the call)
    df,           \* the caller's table object (main.py:25 `df`)
    variable1,    \* the trailing window length passed to calculate_metrics
    variable2,    \* the forward window length passed to calculate_metrics
    normalized,   \* `data` after metrics_calculations.py:25
    historical,   \* `data` after add_historical_metrics returned (line 27)
    new_df,       \* the value calculate_metrics returns (line 30)
    mpc,          \* position of the metrics pipeline: "input", "computed", "selected"
    selection,    \* outcome of the column selection of train_model (lines 41-42)
    book,         \* output.xlsx: [exists, sheetnames, content]
    writes,       \* one entry per add_to_excel invocation: [name, sheet, status]
    to_ts,        \* fetch_crypto_data: the to_ts request parameter
    start_timestamp, \* fetch_crypto_data: start of the requested range
    tz,           \* offset of the local time zone from UTC, in time units
    earliest,     \* first day for which the remote API has a bar
    all_data,     \* fetch_crypto_data: timestamps of the rows accumulated so far
    requests,     \* number of requests issued by the loop
    fpc           \* position of fetch_crypto_data: "loop", "returned", "failed"

vars == <<raw, df, variable1, variable2, normalized, historical, new_df, mpc,
          selection, book, writes, to_ts, start_timestamp, tz, earliest,
          all_data, requests, fpc>>

metricsVars == <<raw, df, variable1, variable2, normalized, historical, new_df,
                 mpc, selection>>
excelVars == <<book, writes>>
fetchVars == <<to_ts, start_timestamp, tz, earliest, all_data, requests, fpc>>

-----------------------------------------------------------------------------
(* Bounds of the model *)

MaxRows == 3
MaxWindow == 3
MaxWrites == 4
MaxRequests == 4
MaxBatch == 2
MaxFetchDay == 4

DayValues == {1, 2, 4}
PricePairs == {<<2, 1>>, <<3, 2>>}

-----------------------------------------------------------------------------
(* Generic helpers *)

Max(S) == CHOOSE m \in S : \A x \in S : x <= m
Min(S) == CHOOSE m \in S : \A x \in S : m <= x
SeqRange(s) == {s[k] : k \in 1..Len(s)}

\* positional access, 0-based (Series.iloc[i])
iloc(s, i) == s[i + 1]

\* Series.iloc[a:b] as the set of the cells at positions a .. b-1
ilocSlice(s, a, b) == {iloc(s, j) : j \in a..(b - 1)}

NaN == <<>>
Float(v) == <<v>>

-----------------------------------------------------------------------------
(* DataFrame primitives *)

NRows(data) == Len(data.index)

Column(data, name) == data.col[name]

HasColumn(data, name) == name \in SeqRange(data.columns)

\* data[name] = values : overwrite in place, or append a new column
SetColumn(data, name, values) ==
    [data EXCEPT !.columns = IF name \in SeqRange(@) THEN @ ELSE Append(@, name),
                 !.col = (name :> values) @@ @]

\* positions (0-based) of the rows whose label lies in lo..hi : data.loc[lo:hi]
LocRows(data, lo, hi) ==
    {p \in 0..(NRows(data) - 1) : iloc(data.index, p) >= lo /\ iloc(data.index, p) <= hi}

\* data.loc[label, name] for a label that occurs once
LocCell(data, label, name) ==
    iloc(Column(data, name),
         CHOOSE p \in 0..(NRows(data) - 1) : iloc(data.index, p) = label)

DateCol == <<"Date">>
OpenCol == <<"Open">>
HighCol == <<"High">>
LowCol == <<"Low">>
CloseCol == <<"Close">>

\* pd.to_datetime on one cell: a date string is parsed, a datetime is kept
to_datetime(cell) == [kind |-> "datetime", day |-> cell.day]

\* (a - b).days for two datetimes
DaysBetween(a, b) == a.day - b.day

-----------------------------------------------------------------------------
(* utils.py: helper functions for metrics_calculations.py *)

\* mutant: the window reaches one row too far back
calculate_historical_high_long_window(data, days) ==
    [p \in 1..NRows(data) |->
        Max(ilocSlice(Column(data, HighCol), Max({0, (p - 1) - days}), p))]

calculate_historical_high(data, days) ==
    [p \in 1..NRows(data) |->
        Max(ilocSlice(Column(data, HighCol), Max({0, (p - 1) - days + 1}), p))]

calculate_historical_low(data, days) ==
    [p \in 1..NRows(data) |->
        Min(ilocSlice(Column(data, LowCol), Max({0, (p - 1) - days + 1}), p))]

\* mutant: the first occurrence of the maximum instead of the latest
days_since_high_first_occurrence(data, index, days) ==
    LET subset == LocRows(data, Max({0, index - days + 1}), index)
        high_value == Max({iloc(Column(data, HighCol), p) : p \in subset})
        hits == {p \in subset : iloc(Column(data, HighCol), p) = high_value}
        high_date == CHOOSE d \in {iloc(Column(data, DateCol), p) : p \in hits} :
                        \A p \in hits : iloc(Column(data, DateCol), p).day >= d.day
    IN  DaysBetween(LocCell(data, index, DateCol), high_date)

days_since_high(data, index, days) ==
    LET subset == LocRows(data, Max({0, index - days + 1}), index)
        high_value == Max({iloc(Column(data, HighCol), p) : p \in subset})
        hits == {p \in subset : iloc(Column(data, HighCol), p) = high_value}
        high_date == CHOOSE d \in {iloc(Column(data, DateCol), p) : p \in hits} :
                        \A p \in hits : iloc(Column(data, DateCol), p).day <= d.day
    IN  DaysBetween(LocCell(data, index, DateCol), high_date)

days_since_low(data, index, days) ==
    LET subset == LocRows(data, Max({0, index - days + 1}), index)
        low_value == Min({iloc(Column(data, LowCol), p) : p \in subset})
        hits == {p \in subset : iloc(Column(data, LowCol), p) = low_value}
        low_date == CHOOSE d \in {iloc(Column(data, DateCol), p) : p \in hits} :
                        \A p \in hits : iloc(Column(data, DateCol), p).day <= d.day
    IN  DaysBetween(LocCell(data, index, DateCol), low_date)

\* round(x, 2) of the quotient num/den * 100, in hundredths of a percent,
\* ties to the even neighbour
RoundHalfEven(num, den) ==
    LET q == num \div den
        r == num % den
    IN  IF 2 * r < den THEN q
        ELSE IF 2 * r > den THEN q + 1
        ELSE IF q % 2 = 0 THEN q ELSE q + 1

pct_diff_cell(current, reference) ==
    RoundHalfEven((current - reference) * 10000, reference)

\* current and reference are plain numeric columns
calculate_pct_diff(current, reference) ==
    [p \in 1..Len(current) |-> pct_diff_cell(current[p], reference[p])]

\* reference is a float column that may hold NaN
calculate_pct_diff_nan(current, reference) ==
    [p \in 1..Len(current) |->
        IF reference[p] = NaN THEN NaN
        ELSE Float(pct_diff_cell(current[p], reference[p][1]))]

\* Series.max() / Series.min() of a slice: NaN when the slice is empty
SliceMax(S) == IF S = {} THEN NaN ELSE Float(Max(S))
SliceMin(S) == IF S = {} THEN NaN ELSE Float(Min(S))

\* mutant: the slice starts at the current row
calculate_future_high_from_current(data, days) ==
    [p \in 1..NRows(data) |->
        LET i == p - 1
        IN  IF i < NRows(data) - 1
            THEN SliceMax(ilocSlice(Column(data, HighCol), i,
                                    Min({NRows(data), i + days})))
            ELSE Float(iloc(Column(data, HighCol), i))]

calculate_future_high(data, days) ==
    [p \in 1..NRows(data) |->
        LET i == p - 1
        IN  IF i < NRows(data) - 1
            THEN SliceMax(ilocSlice(Column(data, HighCol), i + 1,
                                    Min({NRows(data), i + days})))
            ELSE Float(iloc(Column(data, HighCol), i))]

calculate_future_low(data, days) ==
    [p \in 1..NRows(data) |->
        LET i == p - 1
        IN  IF i < NRows(data) - 1
            THEN SliceMin(ilocSlice(Column(data, LowCol), i + 1,
                                    Min({NRows(data), i + days})))
            ELSE Float(iloc(Column(data, LowCol), i))]

-----------------------------------------------------------------------------
(* metrics_calculations.py *)

\* the f-strings that name the derived columns
HighLastCol(n) == <<"High_Last_", n, "_Days">>
DaysSinceHighLastCol(n) == <<"Days_Since_High_Last_", n, "_Days">>
PctDiffFromHighLastCol(n) == <<"%_Diff_From_High_Last_", n, "_Days">>
LowLastCol(n) == <<"Low_Last_", n, "_Days">>
DaysSinceLowLastCol(n) == <<"Days_Since_Low_Last_", n, "_Days">>
PctDiffFromLowLastCol(n) == <<"%_Diff_From_Low_Last_", n, "_Days">>
HighNextCol(n) == <<"High_Next_", n, "_Days">>
PctDiffFromHighNextCol(n) == <<"%_Diff_From_High_Next_", n, "_Days">>
LowNextCol(n) == <<"Low_Next_", n, "_Days">>
PctDiffFromLowNextCol(n) == <<"%_Diff_From_Low_Next_", n, "_Days">>

days_since_high_column(data, days) ==
    [p \in 1..NRows(data) |->
        IF p - 1 >= days - 1 THEN days_since_high(data, p - 1, days) ELSE 0]

days_since_low_column(data, days) ==
    [p \in 1..NRows(data) |->
        IF p - 1 >= days - 1 THEN days_since_low(data, p - 1, days) ELSE 0]

add_historical_metrics(data, days) ==
    LET d1 == SetColumn(data, HighLastCol(days), calculate_historical_high(data, days))
        d2 == SetColumn(d1, DaysSinceHighLastCol(days), days_since_high_column(d1, days))
        d3 == SetColumn(d2, PctDiffFromHighLastCol(days),
                        calculate_pct_diff(Column(d2, CloseCol),
                                           Column(d2, HighLastCol(days))))
        d4 == SetColumn(d3, LowLastCol(days), calculate_historical_low(d3, days))
        d5 == SetColumn(d4, DaysSinceLowLastCol(days), days_since_low_column(d4, days))
    IN  SetColumn(d5, PctDiffFromLowLastCol(days),
                  calculate_pct_diff(Column(d5, CloseCol), Column(d5, LowLastCol(days))))

add_future_metrics(data, days) ==
    LET d1 == SetColumn(data, HighNextCol(days), calculate_future_high(data, days))
        d2 == SetColumn(d1, PctDiffFromHighNextCol(days),
                        calculate_pct_diff_nan(Column(d1, CloseCol),
                                               Column(d1, HighNextCol(days))))
        d3 == SetColumn(d2, LowNextCol(days), calculate_future_low(d2, days))
    IN  SetColumn(d3, PctDiffFromLowNextCol(days),
                  calculate_pct_diff_nan(Column(d3, CloseCol),
                                         Column(d3, LowNextCol(days))))

\* data["Date"] = pd.to_datetime(data["Date"]) : assignment into the caller's object
ConvertDates(data) ==
    SetColumn(data, DateCol,
              [p \in 1..NRows(data) |-> to_datetime(Column(data, DateCol)[p])])

RowOrders(n) ==
    {f \in [1..n -> 1..n] : \A a, b \in 1..n : a /= b => f[a] /= f[b]}

\* the row orders sort_values("Date") may produce: ascending by date; the default
\* sort is not stable, so rows with equal dates may come out in any order
SortOrders(data) ==
    {f \in RowOrders(NRows(data)) :
        \A a, b \in 1..NRows(data) :
            a < b => Column(data, DateCol)[f[a]].day <= Column(data, DateCol)[f[b]].day}

\* mutant: rows that repeat an earlier date are dropped
TakeRows_drop_duplicates(data, order) ==
    LET dates == Column(data, DateCol)
        kept == SelectSeq([p \in 1..NRows(data) |-> p],
                          LAMBDA p : \A q \in 1..(p - 1) :
                                        dates[order[q]].day /= dates[order[p]].day)
    IN  [index |-> [p \in 1..Len(kept) |-> data.index[order[kept[p]]]],
         columns |-> data.columns,
         col |-> [c \in DOMAIN data.col |->
                     [p \in 1..Len(kept) |-> data.col[c][order[kept[p]]]]]]

\* the rows of data taken in the order `order`, labels kept
TakeRows(data, order) ==
    [index |-> [p \in 1..NRows(data) |-> data.index[order[p]]],
     columns |-> data.columns,
     col |-> [c \in DOMAIN data.col |-> [p \in 1..NRows(data) |-> data.col[c][order[p]]]]]

reset_index(data) ==
    [data EXCEPT !.index = [p \in 1..NRows(data) |-> p - 1]]

\* calculate_metrics(df, v1, v2), lines 24-30
CalculateMetrics(v1, v2) ==
    /\ mpc = "input"
    /\ \E order \in SortOrders(ConvertDates(df)) :
          LET converted == ConvertDates(df)
              data == reset_index(TakeRows(converted, order))
              hist == add_historical_metrics(data, v1)
          IN  /\ df' = converted
              /\ normalized' = data
              /\ historical' = hist
              /\ new_df' = add_future_metrics(hist, v2)
    /\ variable1' = v1
    /\ variable2' = v2
    /\ mpc' = "computed"
    /\ UNCHANGED <<raw, selection, excelVars, fetchVars>>

-----------------------------------------------------------------------------
(* ml_model.py: train_model, lines 31-42 *)

\* mutant: the trailing high itself in place of the days since it
feature_columns_wrong_column(v1) ==
    <<HighLastCol(v1), PctDiffFromHighLastCol(v1),
      DaysSinceLowLastCol(v1), PctDiffFromLowLastCol(v1)>>

feature_columns(v1) ==
    <<DaysSinceHighLastCol(v1), PctDiffFromHighLastCol(v1),
      DaysSinceLowLastCol(v1), PctDiffFromLowLastCol(v1)>>

target_columns(v2) ==
    <<PctDiffFromHighNextCol(v2), PctDiffFromLowNextCol(v2)>>

\* data[names] : the listed columns in the listed order, same index
SelectColumns(data, names) ==
    [index |-> data.index,
     columns |-> names,
     col |-> [c \in SeqRange(names) |-> data.col[c]]]

MissingColumns(data, names) ==
    SelectSeq(names, LAMBDA c : ~HasColumn(data, c))

\* X = data[feature_columns]; y = data[target_columns]
SelectFeaturesTargets(data, v1, v2) ==
    IF MissingColumns(data, feature_columns(v1)) /= <<>>
    THEN [status |-> "KeyError", v1 |-> v1, v2 |-> v2,
          missing |-> MissingColumns(data, feature_columns(v1))]
    ELSE IF MissingColumns(data, target_columns(v2)) /= <<>>
    THEN [status |-> "KeyError", v1 |-> v1, v2 |-> v2,
          missing |-> MissingColumns(data, target_columns(v2))]
    ELSE [status |-> "ok", v1 |-> v1, v2 |-> v2,
          X |-> SelectColumns(data, feature_columns(v1)),
          y |-> SelectColumns(data, target_columns(v2))]

TrainModel(v1, v2) ==
    /\ mpc = "computed"
    /\ selection' = SelectFeaturesTargets(new_df, v1, v2)
    /\ mpc' = "selected"
    /\ UNCHANGED <<raw, df, variable1, variable2, normalized, historical, new_df,
                   excelVars, fetchVars>>

-----------------------------------------------------------------------------
(* Input tables *)

\* daily bars as the upstream supplies them: Low <= Open, Close <= High
Bars ==
    {[Date |-> d, Open |-> hl[2], High |-> hl[1], Low |-> hl[2], Close |-> 2] :
        d \in DayValues, hl \in PricePairs}

\* bars that differ in their date only
FlatBars == {b \in Bars : b.High = 2 /\ b.Low = 1}

RECURSIVE SeqsUpTo(_, _)
SeqsUpTo(S, n) ==
    IF n = 0 THEN {<<>>}
    ELSE LET shorter == SeqsUpTo(S, n - 1)
         IN  shorter \cup {Append(s, x) : s \in {t \in shorter : Len(t) = n - 1}, x \in S}

\* the bars of the end-to-end scenario: five consecutive days
ExampleBars ==
    LET high == <<10, 12, 9, 15, 11>>
        low == <<5, 6, 4, 7, 6>>
    IN  [p \in 1..5 |-> [Date |-> p, Open |-> low[p], High |-> high[p],
                          Low |-> low[p], Close |-> high[p]]]

\* a table as fetch_crypto_data returns it ("fetched": datetime cells, the labels
\* of the concatenated batches) or as a caller may build it ("loaded": date
\* strings, default labels)
RawFrame(bars, kind) ==
    [index |-> [p \in 1..Len(bars) |-> IF kind = "fetched" THEN (p - 1) % 2 ELSE p - 1],
     columns |-> <<DateCol, OpenCol, HighCol, LowCol, CloseCol>>,
     col |-> (DateCol :> [p \in 1..Len(bars) |->
                            [kind |-> IF kind = "fetched" THEN "datetime" ELSE "str",
                             day |-> bars[p].Date]])
          @@ (OpenCol :> [p \in 1..Len(bars) |-> bars[p].Open])
          @@ (HighCol :> [p \in 1..Len(bars) |-> bars[p].High])
          @@ (LowCol :> [p \in 1..Len(bars) |-> bars[p].Low])
          @@ (CloseCol :> [p \in 1..Len(bars) |-> bars[p].Close])]

NoFrame == [index |-> <<>>, columns |-> <<>>, col |-> <<>>]
NoSelection == [status |-> "none"]

ExcelIdle ==
    /\ book = [exists |-> FALSE, sheetnames |-> <<>>, content |-> <<>>]
    /\ writes = <<>>

FetchIdle ==
    /\ to_ts = 0
    /\ start_timestamp = 0
    /\ tz = 0
    /\ earliest = 0
    /\ all_data = <<>>
    /\ requests = 0
    /\ fpc = "idle"

MetricsInit(tables) ==
    /\ \E bars \in tables, kind \in {"fetched", "loaded"} :
          /\ raw = RawFrame(bars, kind)
          /\ df = RawFrame(bars, kind)
    /\ variable1 = 0
    /\ variable2 = 0
    /\ normalized = NoFrame
    /\ historical = NoFrame
    /\ new_df = NoFrame
    /\ mpc = "input"
    /\ selection = NoSelection

InitMetrics ==
    /\ MetricsInit(SeqsUpTo(Bars, MaxRows) \cup {ExampleBars})
    /\ ExcelIdle
    /\ FetchIdle

NextMetrics ==
    \E v1, v2 \in 1..MaxWindow : CalculateMetrics(v1, v2)

SpecMetrics == InitMetrics /\ [][NextMetrics]_vars

InitAssemble ==
    /\ MetricsInit(SeqsUpTo(FlatBars, MaxRows))
    /\ ExcelIdle
    /\ FetchIdle

NextAssemble ==
    \/ \E v1, v2 \in 1..MaxWindow : CalculateMetrics(v1, v2)
    \/ \E v1, v2 \in 1..MaxWindow : TrainModel(v1, v2)

SpecAssemble == InitAssemble /\ [][NextAssemble]_vars

-----------------------------------------------------------------------------
(* Properties of the feature-derivation engine *)

Computed == mpc \in {"computed", "selected"}
LastRow == NRows(new_df) - 1
RowsOf(data) == 0..(NRows(data) - 1)
HighAt(i) == iloc(Column(new_df, HighCol), i)
LowAt(i) == iloc(Column(new_df, LowCol), i)
DayAt(i) == iloc(Column(new_df, DateCol), i).day
TrailingWindow(i) == {j \in RowsOf(new_df) : j >= i - variable1 + 1 /\ j <= i}
IsMaxOver(m, rows, column) ==
    /\ \E j \in rows : iloc(Column(new_df, column), j) = m
    /\ \A j \in rows : iloc(Column(new_df, column), j) <= m
IsMinOver(m, rows, column) ==
    /\ \E j \in rows : iloc(Column(new_df, column), j) = m
    /\ \A j \in rows : iloc(Column(new_df, column), j) >= m
IsExampleTable ==
    /\ Column(new_df, HighCol) = <<10, 12, 9, 15, 11>>
    /\ Column(new_df, LowCol) = <<5, 6, 4, 7, 6>>

\* C1: at every row i the trailing-high column is the maximum of High over rows
\* max(0, i-W+1)..i and the trailing-low column the minimum of Low over the same
\* rows; both are defined at every row, the first W-1 rows included.
C1_TrailingExtremes ==
    Computed =>
        /\ Len(Column(new_df, HighLastCol(variable1))) = NRows(new_df)
        /\ Len(Column(new_df, LowLastCol(variable1))) = NRows(new_df)
        /\ \A i \in RowsOf(new_df) :
              /\ IsMaxOver(iloc(Column(new_df, HighLastCol(variable1)), i),
                           TrailingWindow(i), HighCol)
              /\ IsMinOver(iloc(Column(new_df, LowLastCol(variable1)), i),
                           TrailingWindow(i), LowCol)

\* the end-to-end scenario with W = 3: trailing high 15 and trailing low 4 at index
\* 3, and a value from a one-row window at index 0
C1_Witness ==
    /\ mpc = "computed"
    /\ IsExampleTable
    /\ variable1 = 3
    /\ iloc(Column(new_df, HighLastCol(3)), 3) = 15
    /\ iloc(Column(new_df, LowLastCol(3)), 3) = 4
    /\ iloc(Column(new_df, HighLastCol(3)), 0) = 10

ForwardRows(i, last) == {j \in RowsOf(new_df) : j >= i + 1 /\ j <= last}
FutureHighAt(i) == iloc(Column(new_df, HighNextCol(variable2)), i)
FutureLowAt(i) == iloc(Column(new_df, LowNextCol(variable2)), i)

ForwardIsExtremeOfNextRows(i) ==
    LET rows == ForwardRows(i, Min({NRows(new_df) - 1, i + variable2 - 1}))
    IN  /\ \E m \in SeqRange(Column(new_df, HighCol)) :
              FutureHighAt(i) = <<m>> /\ IsMaxOver(m, rows, HighCol)
        /\ \E m \in SeqRange(Column(new_df, LowCol)) :
              FutureLowAt(i) = <<m>> /\ IsMinOver(m, rows, LowCol)

SelfFallbackAtLastRow ==
    NRows(new_df) > 0 =>
        /\ FutureHighAt(LastRow) = <<HighAt(LastRow)>>
        /\ FutureLowAt(LastRow) = <<LowAt(LastRow)>>

C4_WindowOfVPeriods ==
    Computed =>
        \A i \in RowsOf(new_df) :
            i + variable2 <= LastRow =>
                /\ \E m \in SeqRange(Column(new_df, HighCol)) :
                      FutureHighAt(i) = <<m>>
                      /\ IsMaxOver(m, ForwardRows(i, i + variable2), HighCol)
                /\ \E m \in SeqRange(Column(new_df, LowCol)) :
                      FutureLowAt(i) = <<m>>
                      /\ IsMinOver(m, ForwardRows(i, i + variable2), LowCol)

DaysSinceHighAt(i) == iloc(Column(new_df, DaysSinceHighLastCol(variable1)), i)
DaysSinceLowAt(i) == iloc(Column(new_df, DaysSinceLowLastCol(variable1)), i)

\* the day of the latest date among the rows of `rows` whose `column` equals m
IsLatestDayOf(d, rows, column, m) ==
    /\ \E j \in rows : iloc(Column(new_df, column), j) = m /\ DayAt(j) = d
    /\ \A j \in rows : iloc(Column(new_df, column), j) = m => DayAt(j) <= d

\* C3: days-since-high is 0 at every row i < W-1; at every row i >= W-1 it is the
\* number of days between row i's date and the latest date among the rows of
\* max(0, i-W+1)..i whose High equals the window maximum; days-since-low likewise
\* with Low and the window minimum.
C3_DaysSinceExtreme ==
    Computed =>
        \A i \in RowsOf(new_df) :
            IF i < variable1 - 1
            THEN DaysSinceHighAt(i) = 0 /\ DaysSinceLowAt(i) = 0
            ELSE /\ \E m \in SeqRange(Column(new_df, HighCol)) :
                       /\ IsMaxOver(m, TrailingWindow(i), HighCol)
                       /\ IsLatestDayOf(DayAt(i) - DaysSinceHighAt(i),
                                        TrailingWindow(i), HighCol, m)
                 /\ \E m \in SeqRange(Column(new_df, LowCol)) :
                       /\ IsMinOver(m, TrailingWindow(i), LowCol)
                       /\ IsLatestDayOf(DayAt(i) - DaysSinceLowAt(i),
                                        TrailingWindow(i), LowCol, m)

\* a full window in which the maximum High occurs on two different dates, neither
\* of them the current row's, next to an earlier row that holds the placeholder
C3_Witness ==
    /\ mpc = "computed"
    /\ variable1 = 2
    /\ NRows(new_df) = 3
    /\ HighAt(0) = 3 /\ HighAt(1) = 3 /\ HighAt(2) = 2
    /\ DayAt(0) = 1 /\ DayAt(1) = 2 /\ DayAt(2) = 4
    /\ DaysSinceHighAt(0) = 0
    /\ DaysSinceHighAt(1) = 0
    /\ DaysSinceHighAt(2) = 2

IsPrefix(s, t) == Len(s) <= Len(t) /\ SubSeq(t, 1, Len(s)) = s

\* `after` is `before` with `added` new columns appended and nothing else changed
OnlyAppends(before, after, added) ==
    /\ after.index = before.index
    /\ IsPrefix(before.columns, after.columns)
    /\ Len(after.columns) = Len(before.columns) + added
    /\ \A c \in SeqRange(before.columns) : Column(after, c) = Column(before, c)
    /\ \A c \in SeqRange(after.columns) : Len(Column(after, c)) = NRows(before)

\* C6: normalization, add_historical_metrics and add_future_metrics each output
\* exactly as many rows as the input table has (also when it has none), and the
\* two metric stages only append columns: row order and every column that existed
\* before stay as they were.
C6_RowCountPreserved ==
    Computed =>
        /\ NRows(normalized) = NRows(raw)
        /\ \A c \in SeqRange(normalized.columns) :
              Len(Column(normalized, c)) = NRows(raw)
        /\ NRows(historical) = NRows(raw)
        /\ NRows(new_df) = NRows(raw)
        /\ OnlyAppends(normalized, historical, 6)
        /\ OnlyAppends(historical, new_df, 4)

\* a table of at least two rows given out of date order has gone through all stages
C6_Witness ==
    /\ mpc = "computed"
    /\ NRows(raw) >= 2
    /\ Column(raw, DateCol)[1].day > Column(raw, DateCol)[2].day
    /\ Len(new_df.columns) = 15

\* C7: the normalized series has the dense index 0..N-1 and dates that strictly
\* increase from row to row, no date occurring twice, whatever the order of the
\* input rows and also when a date occurs more than once in the input.
C7_StrictlyIncreasingDates ==
    Computed =>
        /\ normalized.index = [p \in 1..NRows(normalized) |-> p - 1]
        /\ \A a, b \in 1..NRows(normalized) :
              a < b => Column(normalized, DateCol)[a].day
                           < Column(normalized, DateCol)[b].day

\* C8: calculate_metrics has no side effect on its argument: after it returned,
\* the caller's table has the columns, the cells (the unconverted dates included)
\* and the row order it had before the call.
C8_CallerTableUntouched ==
    Computed => df = raw

SelectedColumnsOf(v1, v2) ==
    [X |-> << <<"Days_Since_High_Last_", v1, "_Days">>,
               <<"%_Diff_From_High_Last_", v1, "_Days">>,
               <<"Days_Since_Low_Last_", v1, "_Days">>,
               <<"%_Diff_From_Low_Last_", v1, "_Days">> >>,
     y |-> << <<"%_Diff_From_High_Next_", v2, "_Days">>,
               <<"%_Diff_From_Low_Next_", v2, "_Days">> >>]

\* C5: selecting with the W and V given to calculate_metrics succeeds and yields the
\* four feature columns and the two target columns in their fixed order, with the
\* rows of the table, 1:1; selecting with a W' or a V' that was not computed fails
\* with a KeyError that names absent columns, and nothing is substituted.
C5_SelectionRoundTrip ==
    mpc = "selected" =>
        IF selection.v1 = variable1 /\ selection.v2 = variable2
        THEN /\ selection.status = "ok"
             /\ selection.X.columns = SelectedColumnsOf(variable1, variable2).X
             /\ selection.y.columns = SelectedColumnsOf(variable1, variable2).y
             /\ selection.X.index = new_df.index
             /\ selection.y.index = new_df.index
             /\ \A c \in SeqRange(selection.X.columns) :
                   Column(selection.X, c) = Column(new_df, c)
             /\ \A c \in SeqRange(selection.y.columns) :
                   Column(selection.y, c) = Column(new_df, c)
        ELSE /\ selection.status = "KeyError"
             /\ selection.missing /= <<>>
             /\ \A c \in SeqRange(selection.missing) :
                   /\ ~HasColumn(new_df, c)
                   /\ c \in SeqRange(SelectedColumnsOf(selection.v1, selection.v2).X)
                            \cup SeqRange(SelectedColumnsOf(selection.v1, selection.v2).y)

\* a selection with the computed W and V over a table of two rows
C5_Witness ==
    /\ mpc = "selected"
    /\ selection.v1 = variable1
    /\ selection.v2 = variable2
    /\ selection.status = "ok"
    /\ NRows(new_df) = 2
    /\ Len(selection.X.index) = 2

\* a selection with the computed W and another V' fails on the target columns
C5_WitnessMissing ==
    /\ mpc = "selected"
    /\ selection.v1 = variable1
    /\ selection.v2 /= variable2
    /\ selection.status = "KeyError"
    /\ Len(selection.missing) = 2

-----------------------------------------------------------------------------
(* utils.py: add_to_excel, lines 12-40.  A sheet name is a sequence of             *)
(* characters; the content of a sheet is the number of the invocation that wrote *)
(* it (0 for a sheet that was in the workbook before).                           *)

\* sheet_name.replace("/", "")
StripSlash(name) == SelectSeq(name, LAMBDA ch : ch /= "/")

DigitChars == <<"0", "1", "2", "3", "4", "5", "6", "7", "8", "9">>

RECURSIVE DecimalDigits(_)
DecimalDigits(k) ==
    IF k < 10 THEN <<DigitChars[k + 1]>>
    ELSE Append(DecimalDigits(k \div 10), DigitChars[(k % 10) + 1])

\* f"{sheet_name}_{suffix}"
Suffixed(name, suffix) == name \o <<"_">> \o DecimalDigits(suffix)

\* mutant: the loop never runs
FreeSuffix_no_loop(name, sheetnames, suffix) == suffix

\* the while loop of lines 29-31: the first suffix, counting from `suffix`, whose
\* name is not a sheet of the workbook
RECURSIVE FreeSuffix(_, _, _)
FreeSuffix(name, sheetnames, suffix) ==
    IF Suffixed(name, suffix) \in SeqRange(sheetnames)
    THEN FreeSuffix(name, sheetnames, suffix + 1)
    ELSE suffix

\* lines 20-35: the sheet name the invocation settles on
ChooseSheetName(name, wb) ==
    LET sheet_name == StripSlash(name)
    IN  IF wb.exists /\ sheet_name \in SeqRange(wb.sheetnames)
        THEN Suffixed(sheet_name, FreeSuffix(sheet_name, wb.sheetnames, 1))
        ELSE sheet_name

\* lines 37-40: pd.ExcelWriter in mode "a" when the workbook was loaded, "w" when
\* it was not; in mode "a" an existing sheet of that name is an error
\* (if_sheet_exists defaults to "error") and the workbook is saved as it was
WriteSheet(wb, sheet_name, data) ==
    IF ~wb.exists
    THEN [exists |-> TRUE, sheetnames |-> <<sheet_name>>, content |-> (sheet_name :> data)]
    ELSE IF sheet_name \in SeqRange(wb.sheetnames)
    THEN wb
    ELSE [exists |-> TRUE,
          sheetnames |-> Append(wb.sheetnames, sheet_name),
          content |-> (sheet_name :> data) @@ wb.content]

AddToExcel(name) ==
    /\ Len(writes) < MaxWrites
    /\ LET sheet_name == ChooseSheetName(name, book)
           collision == book.exists /\ sheet_name \in SeqRange(book.sheetnames)
       IN  /\ book' = WriteSheet(book, sheet_name, Len(writes) + 1)
           /\ writes' = Append(writes,
                               [name |-> name, sheet |-> sheet_name,
                                status |-> IF collision THEN "ValueError" ELSE "written"])
    /\ UNCHANGED <<metricsVars, fetchVars>>

\* the crypto pairs typed into the form (main.py:12), among them one that is
\* another's first disambiguated name
PairNames ==
    {<<"B", "/", "U">>, <<"B", "U">>, <<"B", "U", "_", "1">>, <<"E", "/", "U">>}

MetricsIdle ==
    /\ raw = NoFrame
    /\ df = NoFrame
    /\ variable1 = 0
    /\ variable2 = 0
    /\ normalized = NoFrame
    /\ historical = NoFrame
    /\ new_df = NoFrame
    /\ mpc = "idle"
    /\ selection = NoSelection

\* output.xlsx is absent, or is there with a sheet of some earlier session
InitExcel ==
    /\ MetricsIdle
    /\ FetchIdle
    /\ writes = <<>>
    /\ \/ book = [exists |-> FALSE, sheetnames |-> <<>>, content |-> <<>>]
       \/ \E old \in PairNames :
             book = [exists |-> TRUE, sheetnames |-> <<StripSlash(old)>>,
                     content |-> (StripSlash(old) :> 0)]

NextExcel == \E name \in PairNames : AddToExcel(name)

SpecExcel == InitExcel /\ [][NextExcel]_vars

\* the sheets of the workbook just before invocation k
SheetsBefore(k) ==
    SeqRange(SubSeq(book.sheetnames, 1, Len(book.sheetnames) - Len(writes) + k - 1))

NoSlash(name) == SelectSeq(name, LAMBDA ch : ch /= "/")

-----------------------------------------------------------------------------
(* data_retrieval.py: fetch_crypto_data, lines 25-70.  Time is counted in half    *)
(* days since the epoch (UTC); the remote API holds one bar per day, stamped at   *)
(* midnight UTC, for every day from `earliest` on.  tz is the offset of the       *)
(* local time zone: local time = UTC + tz.                                        *)

DayLen == 2

\* utils.date_str_to_unix_timestamp (line 54): strptime gives a naive datetime at
\* midnight of that day, and timestamp() reads it as local time
date_str_to_unix_timestamp(day, offset) == day * DayLen - offset

\* datetime.utcfromtimestamp(ts).strftime("%Y-%m-%d") (utils.py:83, line 62)
UtcDateOf(ts) == ts \div DayLen

\* the "Data" of a successful response to a request with `to_ts` and `limit`: the
\* latest `limit` daily bars stamped at or before to_ts, oldest first
ResponseData(first_day, upto, limit) ==
    LET last_day == upto \div DayLen
        from_day == Max({first_day, last_day - limit + 1})
    IN  IF last_day < first_day THEN <<>>
        ELSE [p \in 1..(last_day - from_day + 1) |-> (from_day + p - 1) * DayLen]

\* one pass through the body of the while loop, the request succeeding
LoopIteration ==
    /\ fpc = "loop"
    /\ to_ts > start_timestamp
    /\ requests < MaxRequests
    /\ requests' = requests + 1
    /\ LET batch_data == ResponseData(earliest, to_ts, MaxBatch)
       IN  IF batch_data = <<>>
           THEN /\ fpc' = "returned"
                /\ UNCHANGED <<to_ts, all_data>>
           ELSE /\ all_data' = all_data \o batch_data
                /\ to_ts' = date_str_to_unix_timestamp(
                                UtcDateOf(Min(SeqRange(batch_data))), tz)
                /\ fpc' = "loop"
    /\ UNCHANGED <<start_timestamp, tz, earliest, metricsVars, excelVars>>

\* one pass in which the request raises a RequestException (lines 66-68)
RequestFails ==
    /\ fpc = "loop"
    /\ to_ts > start_timestamp
    /\ requests < MaxRequests
    /\ requests' = requests + 1
    /\ fpc' = "failed"
    /\ UNCHANGED <<to_ts, all_data, start_timestamp, tz, earliest, metricsVars,
                   excelVars>>

\* the loop condition fails: line 70
LoopExit ==
    /\ fpc = "loop"
    /\ to_ts <= start_timestamp
    /\ fpc' = "returned"
    /\ UNCHANGED <<to_ts, all_data, requests, start_timestamp, tz, earliest,
                   metricsVars, excelVars>>

\* lines 25-28: any start date, any present moment, any first day of the history
InitFetch ==
    /\ MetricsIdle
    /\ ExcelIdle
    /\ tz \in {-1, 0, 1}
    /\ earliest \in 0..MaxFetchDay
    /\ \E start_day \in 0..MaxFetchDay :
          start_timestamp = date_str_to_unix_timestamp(start_day, tz)
    /\ to_ts \in 0..(MaxFetchDay * DayLen + 1)
    /\ all_data = <<>>
    /\ requests = 0
    /\ fpc = "loop"

NextFetch == LoopIteration \/ RequestFails \/ LoopExit

SpecFetch == InitFetch /\ [][NextFetch]_vars

\* C10: every iteration of the pagination loop that receives a non-empty batch
\* strictly decreases to_ts, so the loop cannot go on issuing the request with the
\* same to_ts.
C10_ToTsStrictlyDecreases ==
    [][(fpc = "loop" /\ Len(all_data') > Len(all_data)) => to_ts' < to_ts]_vars

=============================================================================
